---------------------------- MODULE Spec2Model ----------------------------
(***************************************************************************)
(* A model of music.py: the module-level data loading (pivot of the listen *)
(* history, cosine similarity of the song columns), the interactive flow   *)
(* (prompt, display_user_preferences, hybrid_recommend_songs,              *)
(* display_recommendations) and the recommendation algorithm itself.       *)
(*                                                                         *)
(* Numbers.  Listen counts are small naturals.  The floating-point values  *)
(* of cosine_similarity are modelled in fixed point: a real x is the       *)
(* integer nearest to x * Scale, and every square root, division and       *)
(* product rounds to nearest, as the float operations of the library do    *)
(* (at a far finer grain).  The user similarity of line 38 is only ever    *)
(* compared, so it is kept as an exact fraction.                           *)
(***************************************************************************)
EXTENDS Integers, Sequences, FiniteSets, TLC

\* ------------------------------------------------------------------ bounds
MaxCount == 2        \* listen_count of a row of listen_history.csv: 0..MaxCount
MaxEvents == 3       \* rows of listen_history.csv: 1..MaxEvents
MaxK == 2            \* num_recommendations: 0..MaxK, and the default
MaxFairEvents == 2   \* rows of listen_history.csv under FairSpec
Scale == 1000        \* fixed-point unit: 1.0 is Scale

UserIds == {1, 2, 3}     \* the user ids that may occur in the files or be typed
SongIds == {1, 2}        \* the song ids that may occur in the files

DefaultK == 5        \* num_recommendations=5
TopPreferences == 5  \* head(5) of display_user_preferences
None == 0            \* askinteger's result when the dialog is cancelled

Ks == (0..MaxK) \cup {DefaultK}

VARIABLES
    history_df,            \* rows of listen_history.csv (user_id, song_id, listen_count)
    songs_df,              \* rows of songs.csv, by song_id, in file order
    pivot_table,           \* the user x song matrix of line 13
    song_similarity_df,    \* the song x song matrix of lines 16-17
    user_id,               \* the id typed at the prompt, None when cancelled
    num_recommendations,   \* the k hybrid_recommend_songs was called with
    user_based_scores,     \* local of hybrid_recommend_songs (line 42)
    combined_scores,       \* local of hybrid_recommend_songs (line 49)
    recommendations,       \* the frame hybrid_recommend_songs returned
    preferences,           \* what the preferences window shows
    shown,                 \* the rows of the recommendations window
    stdout,                \* the lines printed
    calls,                 \* the functions invoked so far, in order
    exception,             \* the uncaught exception that ended the process
    pc                     \* position in the module-level code

vars == <<history_df, songs_df, pivot_table, song_similarity_df, user_id,
          num_recommendations, user_based_scores, combined_scores,
          recommendations, preferences, shown, stdout, calls, exception, pc>>

\* ----------------------------------------------------------------- helpers
RECURSIVE SetSum(_, _)
SetSum(f, S) ==
    IF S = {} THEN 0
    ELSE LET x == CHOOSE y \in S : TRUE IN f[x] + SetSum(f, S \ {x})

RECURSIVE SeqSum(_, _)
SeqSum(f, q) ==
    IF q = <<>> THEN 0 ELSE f[Head(q)] + SeqSum(f, Tail(q))

Range(q) == {q[i] : i \in 1..Len(q)}

Perms(S) ==
    {p \in [1..Cardinality(S) -> S] : \A i, j \in 1..Cardinality(S) : p[i] = p[j] => i = j}

\* sort_values(ascending=False): the orders of S that are descending by the
\* relation geq, the set of the pairs <<a, b>> with key(a) >= key(b).
\* The default sort kind is not stable, so equal keys may come in any order.
SortDescending(S, geq) ==
    {p \in Perms(S) : \A i, j \in 1..Cardinality(S) : i < j => <<p[i], p[j]>> \in geq}

\* Series.head(k)
SeriesHead(q, k) == SubSeq(q, 1, IF k < Len(q) THEN k ELSE Len(q))

\* ------------------------------------------------------------ fixed point
RECURSIVE SqrtSearch(_, _, _)
SqrtSearch(x, lo, hi) ==
    IF lo >= hi THEN lo
    ELSE LET mid == (lo + hi + 1) \div 2
         IN  IF mid * mid <= x THEN SqrtSearch(x, mid, hi)
             ELSE SqrtSearch(x, lo, mid - 1)

\* the integer nearest to the square root of x
RoundSqrt(x) ==
    LET r == SqrtSearch(x, 0, IF x < 46340 THEN x ELSE 46340)
    IN  IF x - r * r > r THEN r + 1 ELSE r

\* the integer nearest to a / b, for a >= 0 and b > 0
RoundDiv(a, b) == (2 * a + b) \div (2 * b)

Fixed(n) == n * Scale

\* ------------------------------------------------ lines 12-13: the pivot
Events == [user_id : UserIds, song_id : SongIds, listen_count : 0..MaxCount]

EventKey(e) == (e.user_id * 100 + e.song_id) * 100 + e.listen_count

\* DataFrame.pivot raises ValueError when an (index, column) pair repeats
HasDuplicates(h) ==
    \E i, j \in 1..Len(h) :
        i # j /\ h[i].user_id = h[j].user_id /\ h[i].song_id = h[j].song_id

NoFrame == [index |-> {}, columns |-> {}, val |-> [p \in {} |-> 0]]

\* history_df.pivot(index='user_id', columns='song_id', values='listen_count').fillna(0)
Pivot(h) ==
    LET idx == {h[i].user_id : i \in 1..Len(h)}
        cols == {h[i].song_id : i \in 1..Len(h)}
        cell(u, s) ==
            IF \E i \in 1..Len(h) : h[i].user_id = u /\ h[i].song_id = s
            THEN LET i == CHOOSE i \in 1..Len(h) : h[i].user_id = u /\ h[i].song_id = s
                 IN  h[i].listen_count
            ELSE 0
    IN  [index |-> idx, columns |-> cols,
         val |-> [p \in idx \X cols |-> cell(p[1], p[2])]]

\* ---------------------------------- lines 15-17: cosine_similarity(pivot.T)
\* the Euclidean norm of song column s; a zero norm is replaced by 1
ColumnNorm(pt, s) ==
    LET ss == SetSum([u \in pt.index |-> pt.val[<<u, s>>] * pt.val[<<u, s>>]], pt.index)
        n == RoundSqrt(ss * Scale * Scale)
    IN  IF n = 0 THEN Scale ELSE n

\* a bug: the columns are not divided by their norms
Unnormalized(pt, s) == [u \in pt.index |-> Fixed(pt.val[<<u, s>>])]

\* the column of song s divided by its norm
Normalized(pt, s) ==
    [u \in pt.index |-> RoundDiv(pt.val[<<u, s>>] * Scale * Scale, ColumnNorm(pt, s))]

\* the dot product of two normalized columns
CosineSimilarity(pt) ==
    [p \in pt.columns \X pt.columns |->
        LET a == Normalized(pt, p[1])
            b == Normalized(pt, p[2])
        IN  RoundDiv(SetSum([u \in pt.index |-> a[u] * b[u]], pt.index), Scale)]

\* ----------------------------------------- DataFrame.loc[label], try/except
\* pivot_table.loc[user_id] raises KeyError for a label that is no row
LocRaises(pt, uid) == IF uid \in pt.index THEN "none" ELSE "KeyError"

\* line 64: except KeyError, in hybrid_recommend_songs
CaughtInRecommend(e) == e = "KeyError"

\* a bug: display_user_preferences has no handler
NothingCaught(e) == FALSE

\* line 141: except KeyError, in display_user_preferences
CaughtInPreferences(e) == e = "KeyError"

\* songs_df[songs_df['song_id'].isin(ids)]: the rows of the catalog whose id
\* is among ids, in the catalog's order
IsIn(df, ids) == SelectSeq(df, LAMBDA r : r \in ids)

SongColumns == {"song_id", "title", "artist"}

\* pd.DataFrame()
EmptyDataFrame == [columns |-> {}, rows |-> <<>>]

\* -------------------------------------- lines 19-66: hybrid_recommend_songs
\* line 35
UserVector(uid, pt) == [s \in pt.columns |-> pt.val[<<uid, s>>]]

\* line 38: dot / clip(row sum * vector sum, 1e-9), as the fraction num / den.
\* Counts are naturals, so a product below 1e-9 is 0 and then the dot product
\* is 0 as well: the quotient 0 / 1e-9 is the fraction 0 / 1.
UserSimilarity(uid, pt) ==
    LET uv == UserVector(uid, pt)
        total == SetSum(uv, pt.columns)
    IN  [u \in pt.index |->
            LET row == [s \in pt.columns |-> pt.val[<<u, s>>]]
                prod == SetSum(row, pt.columns) * total
            IN  [num |-> SetSum([s \in pt.columns |-> row[s] * uv[s]], pt.columns),
                 den |-> IF prod = 0 THEN 1 ELSE prod]]

\* line 39: user_similarity.drop(user_id)
DropSelf(uid, pt) == pt.index \ {uid}

\* line 40: the orders sort_values(ascending=False) may give the other users
SimilarUsers(uid, pt) ==
    LET us == UserSimilarity(uid, pt)
        others == DropSelf(uid, pt)
    IN  SortDescending(others,
                       {q \in others \X others :
                           us[q[1]].num * us[q[2]].den >= us[q[2]].num * us[q[1]].den})

\* a bug: only the most similar user is kept
TopNeighbourOnly(similar_users) == SeriesHead(similar_users, 1)

\* line 41: pivot_table.loc[similar_users], every row of the ranking
SimilarUsersData(similar_users) == similar_users

\* line 42: similar_users_data.sum(), per song, as a fixed-point value
UserBasedScores(pt, similar_users) ==
    [s \in pt.columns |->
        Fixed(SeqSum([u \in pt.index |-> pt.val[<<u, s>>]],
                     SimilarUsersData(similar_users)))]

\* lines 45 and 52: user_vector[user_vector > 0].index
ListenedSongs(uid, pt) == {s \in pt.columns : UserVector(uid, pt)[s] > 0}

\* line 46: song_similarity_df.loc[listened_songs].sum()
ItemBasedScores(uid, pt, sim) ==
    LET listened == ListenedSongs(uid, pt)
    IN  [s \in pt.columns |-> SetSum([l \in listened |-> sim[<<l, s>>]], listened)]

\* line 49: the sum of two series over the same index
CombinedScores(ub, ib) == [s \in (DOMAIN ub) \cap (DOMAIN ib) |-> ub[s] + ib[s]]

\* a bug: the listened songs are not dropped
NothingDropped(uid, pt, combined) == DOMAIN combined

\* line 53: combined_scores.drop(already_listened), the labels left
Candidates(uid, pt, combined) == (DOMAIN combined) \ ListenedSongs(uid, pt)

\* line 56: the orders sort_values(ascending=False) may give the candidates
RankedCandidates(uid, pt, combined) ==
    LET left == Candidates(uid, pt, combined)
    IN  SortDescending(left, {q \in left \X left : combined[q[1]] >= combined[q[2]]})

\* a bug: one song too many
HeadOffByOne(ranked, k) == SeriesHead(ranked, k + 1)

\* line 59: recommendations.head(num_recommendations)
TopSongs(ranked, k) == SeriesHead(ranked, k)

\* line 62
Recommended(df, top_songs) ==
    [columns |-> SongColumns, rows |-> IsIn(df, Range(top_songs))]

\* ----------------------------------- lines 104-146: display_user_preferences
\* line 121: the orders of user_vector.sort_values(ascending=False)
RankedPreferences(uid, pt) ==
    LET uv == UserVector(uid, pt)
    IN  SortDescending(pt.columns, {q \in pt.columns \X pt.columns : uv[q[1]] >= uv[q[2]]})

\* ------------------------------------------------------------------- Init
\* The order of the rows of listen_history.csv does not reach the pivot, which
\* orders its index and columns itself, so the rows are taken in key order;
\* equal rows and rows that repeat a (user, song) pair are among them.
\* The file holds at least one row.
Histories ==
    {h \in UNION {[1..n -> Events] : n \in 1..MaxEvents} :
        \A i \in 1..(Len(h) - 1) : EventKey(h[i]) <= EventKey(h[i + 1])}

\* songs.csv: each song id at most once (Song identifiers are unique), in any order
Catalogs ==
    {c \in UNION {[1..n -> SongIds] : n \in 0..Cardinality(SongIds)} :
        \A i, j \in 1..Len(c) : c[i] = c[j] => i = j}

NoScores == [s \in {} |-> 0]

Init ==
    /\ history_df \in Histories
    /\ songs_df \in Catalogs
    /\ pivot_table = NoFrame
    /\ song_similarity_df = [p \in {} |-> 0]
    /\ user_id = None
    /\ num_recommendations = DefaultK
    /\ user_based_scores = NoScores
    /\ combined_scores = NoScores
    /\ recommendations = EmptyDataFrame
    /\ preferences = [kind |-> "none", rows |-> <<>>]
    /\ shown = <<>>
    /\ stdout = <<>>
    /\ calls = <<>>
    /\ exception = "none"
    /\ pc = "load"

\* ---------------------------------------------------------------- actions
\* lines 8-17
LoadData ==
    /\ pc = "load"
    /\ IF HasDuplicates(history_df)
       THEN /\ exception' = "ValueError"
            /\ pc' = "crashed"
            /\ UNCHANGED <<pivot_table, song_similarity_df>>
       ELSE /\ pivot_table' = Pivot(history_df)
            /\ song_similarity_df' = CosineSimilarity(Pivot(history_df))
            /\ pc' = "prompt"
            /\ UNCHANGED exception
    /\ UNCHANGED <<history_df, songs_df, user_id, num_recommendations,
                   user_based_scores, combined_scores, recommendations,
                   preferences, shown, stdout, calls>>

\* lines 149-153 and 157-158
Prompt ==
    /\ pc = "prompt"
    /\ \E uid \in UserIds \cup {None} :
        /\ user_id' = uid
        /\ IF uid # None
           THEN pc' = "preferences" /\ UNCHANGED stdout
           ELSE /\ stdout' = Append(stdout, "User ID input was cancelled.")
                /\ pc' = "done"
    /\ UNCHANGED <<history_df, songs_df, pivot_table, song_similarity_df,
                   num_recommendations, user_based_scores, combined_scores,
                   recommendations, preferences, shown, calls, exception>>

\* line 154, lines 113-144: up to the window's main loop
DisplayUserPreferences ==
    /\ pc = "preferences"
    /\ calls' = Append(calls, "display_user_preferences")
    /\ LET e == LocRaises(pivot_table, user_id)
       IN  IF e = "none"
           THEN /\ \E top \in RankedPreferences(user_id, pivot_table) :
                    preferences' =
                        [kind |-> "tree",
                         rows |-> IsIn(songs_df, Range(SeriesHead(top, TopPreferences)))]
                /\ pc' = "preferences_window"
                /\ UNCHANGED exception
           ELSE IF CaughtInPreferences(e)
           THEN /\ preferences' = [kind |-> "not found", rows |-> <<>>]
                /\ pc' = "preferences_window"
                /\ UNCHANGED exception
           ELSE /\ exception' = e
                /\ pc' = "crashed"
                /\ UNCHANGED preferences
    /\ UNCHANGED <<history_df, songs_df, pivot_table, song_similarity_df, user_id,
                   num_recommendations, user_based_scores, combined_scores,
                   recommendations, shown, stdout>>

\* lines 102 and 146: root.mainloop() returns when the window is closed
CloseWindow ==
    /\ pc \in {"preferences_window", "recommendations_window"}
    /\ pc' = IF pc = "preferences_window" THEN "recommend" ELSE "done"
    /\ UNCHANGED <<history_df, songs_df, pivot_table, song_similarity_df, user_id,
                   num_recommendations, user_based_scores, combined_scores,
                   recommendations, preferences, shown, stdout, calls, exception>>

\* line 155, lines 33-66
HybridRecommendSongs ==
    /\ pc = "recommend"
    /\ calls' = Append(calls, "hybrid_recommend_songs")
    /\ \E k \in Ks :
        /\ num_recommendations' = k
        /\ LET e == LocRaises(pivot_table, user_id)
           IN  IF e = "none"
               THEN \E similar_users \in SimilarUsers(user_id, pivot_table) :
                      LET ub == UserBasedScores(pivot_table, similar_users)
                          ib == ItemBasedScores(user_id, pivot_table, song_similarity_df)
                          combined == CombinedScores(ub, ib)
                      IN  \E ranked \in RankedCandidates(user_id, pivot_table, combined) :
                            /\ user_based_scores' = ub
                            /\ combined_scores' = combined
                            /\ recommendations' = Recommended(songs_df, TopSongs(ranked, k))
                            /\ pc' = "display"
                            /\ UNCHANGED <<stdout, exception>>
               ELSE IF CaughtInRecommend(e)
               THEN /\ stdout' = Append(stdout, "User not found in the data.")
                    /\ recommendations' = EmptyDataFrame
                    /\ pc' = "display"
                    /\ UNCHANGED <<user_based_scores, combined_scores, exception>>
               ELSE /\ exception' = e
                    /\ pc' = "crashed"
                    /\ UNCHANGED <<user_based_scores, combined_scores,
                                   recommendations, stdout>>
    /\ UNCHANGED <<history_df, songs_df, pivot_table, song_similarity_df, user_id,
                   preferences, shown>>

\* line 156, lines 75-100: up to the window's main loop
DisplayRecommendations ==
    /\ pc = "display"
    /\ calls' = Append(calls, "display_recommendations")
    /\ IF recommendations.rows = <<>>
       THEN /\ stdout' = Append(stdout, "No recommendations found.")
            /\ pc' = "done"
            /\ UNCHANGED shown
       ELSE /\ shown' = recommendations.rows
            /\ pc' = "recommendations_window"
            /\ UNCHANGED stdout
    /\ UNCHANGED <<history_df, songs_df, pivot_table, song_similarity_df, user_id,
                   num_recommendations, user_based_scores, combined_scores,
                   recommendations, preferences, exception>>

Next ==
    \/ LoadData
    \/ Prompt
    \/ DisplayUserPreferences
    \/ CloseWindow
    \/ HybridRecommendSongs
    \/ DisplayRecommendations

Spec == Init /\ [][Next]_vars

\* The flow under fairness, for what is claimed to happen eventually: the
\* interpreter goes on to the next statement, and a window that is open is
\* closed by its user, which is when root.mainloop() returns.
FairInit == Init /\ Len(history_df) <= MaxFairEvents

FairSpec == FairInit /\ [][Next]_vars /\ WF_vars(Next)

\* ------------------------------------------------------ the claims' words
\* hybrid_recommend_songs has been called and has returned
Returned ==
    /\ pc \in {"display", "recommendations_window", "done"}
    /\ "hybrid_recommend_songs" \in Range(calls)

\* an id was typed at the prompt (the data is loaded by then)
Entered == user_id # None

KnownUser == Entered /\ user_id \in pivot_table.index

UnknownUser == Entered /\ user_id \notin pivot_table.index

\* the listen count of user u for song s, 0 for a song that is no column
ListenCount(u, s) == IF s \in pivot_table.columns THEN pivot_table.val[<<u, s>>] ELSE 0

Catalogued == Range(songs_df)

Result == recommendations.rows

\* C1: for a known user, no returned song has a listen count > 0 for the user.
C1_NoListenedSongReturned ==
    (Returned /\ KnownUser) =>
        \A i \in 1..Len(Result) : ~(ListenCount(user_id, Result[i]) > 0)

C1_Witness ==
    /\ Returned /\ KnownUser
    /\ Result # <<>>
    /\ \E s \in Catalogued : ListenCount(user_id, s) > 0

\* C2: a call with a user id that is no row of the matrix ends in an error
\* raised to the caller, never in a returned (empty) result.
C2_UnknownUserRaises ==
    (UnknownUser /\ "hybrid_recommend_songs" \in Range(calls)) =>
        /\ exception \in {"UserNotFoundError", "KeyError"}
        /\ ~Returned

\* C3: the returned records are in rank order: of two returned songs, the one
\* with the strictly higher combined score comes first.
C3_RankOrder ==
    (Returned /\ KnownUser) =>
        \A i, j \in 1..Len(Result) :
            i < j => ~(combined_scores[Result[j]] > combined_scores[Result[i]])

\* C4: for a known user the result has at most k records, and it is empty,
\* with no error, when the user has listened to every catalogued song.
C4_AtMostK ==
    (Returned /\ KnownUser) =>
        /\ Len(Result) <= num_recommendations
        /\ (\A s \in Catalogued : ListenCount(user_id, s) > 0) =>
               (Result = <<>> /\ exception = "none")

C4_Witness ==
    /\ Returned /\ KnownUser
    /\ num_recommendations >= 1
    /\ Len(Result) = num_recommendations
    /\ Cardinality({s \in Catalogued \cap pivot_table.columns :
                       ListenCount(user_id, s) = 0}) > num_recommendations

\* C5: a history that repeats a (user, song) pair is built into a matrix whose
\* cell holds the sum of the repeated counts; the build does not fail.
C5_DuplicatesSummed ==
    (pc # "load" /\ HasDuplicates(history_df)) =>
        /\ exception = "none"
        /\ \A i \in 1..Len(history_df) :
            LET u == history_df[i].user_id
                s == history_df[i].song_id
                same == {j \in 1..Len(history_df) :
                            history_df[j].user_id = u /\ history_df[j].song_id = s}
            IN  /\ <<u, s>> \in DOMAIN pivot_table.val
                /\ pivot_table.val[<<u, s>>] =
                       SetSum([j \in same |-> history_df[j].listen_count], same)

\* C6: the user-based score of a song is the sum of its listen counts over all
\* users but the target, whatever the ranking of the neighbours, and the
\* combined score adds the similarities of the song to the listened songs.
C6_FullSum ==
    (Returned /\ KnownUser) =>
        LET others == pivot_table.index \ {user_id}
            listened == {l \in pivot_table.columns : pivot_table.val[<<user_id, l>>] > 0}
        IN  \A s \in pivot_table.columns :
                LET ub == Fixed(SetSum([u \in others |-> pivot_table.val[<<u, s>>]], others))
                IN  /\ user_based_scores[s] = ub
                    /\ combined_scores[s] =
                           ub + SetSum([l \in listened |-> song_similarity_df[<<l, s>>]],
                                       listened)

C6_Witness ==
    /\ Returned /\ KnownUser
    /\ \E u, v \in pivot_table.index \ {user_id} :
        LET us == UserSimilarity(user_id, pivot_table)
        IN  /\ us[u].num * us[v].den > us[v].num * us[u].den
            /\ \E s, t \in pivot_table.columns :
                  pivot_table.val[<<u, s>>] > 0 /\ pivot_table.val[<<v, t>>] > 0
    /\ \E l \in pivot_table.columns : pivot_table.val[<<user_id, l>>] > 0

\* C7: for a known user and k >= 1 the result is empty only when the user has
\* listened to every catalogued song (an empty catalog included).
C7_EmptyOnlyWhenAllListened ==
    (Returned /\ KnownUser /\ num_recommendations >= 1 /\ Result = <<>>) =>
        \A s \in Catalogued : ListenCount(user_id, s) > 0

\* C8: the preferences of a known user are among the 5 songs of highest count
\* and come by descending listen count, songs of equal count in matrix order.
C8_PreferencesDescending ==
    (preferences.kind = "tree") =>
        LET rows == preferences.rows
        IN  /\ \A i \in 1..Len(rows) :
                 Cardinality({s \in pivot_table.columns :
                     ListenCount(user_id, s) > ListenCount(user_id, rows[i])})
                     < TopPreferences
            /\ \A i, j \in 1..Len(rows) :
                 i < j =>
                    \/ ListenCount(user_id, rows[i]) > ListenCount(user_id, rows[j])
                    \/ /\ ListenCount(user_id, rows[i]) = ListenCount(user_id, rows[j])
                       /\ rows[i] < rows[j]

Loaded == pc \notin {"load", "crashed"}

ZeroColumn(s) == \A u \in pivot_table.index : pivot_table.val[<<u, s>>] = 0

\* C9 as stated: sim[i][i] is exactly 1 for a song with a nonzero count and
\* exactly 0 for a song whose counts are all zero.
C9_DiagonalExactlyOne ==
    Loaded =>
        \A s \in pivot_table.columns :
            song_similarity_df[<<s, s>>] = IF ZeroColumn(s) THEN 0 ELSE Scale

\* what the roundings of the norm, of the quotients and of the dot product of
\* n rows can add up to, in fixed-point units
RoundingError(n) == 3 * n + 1

\* C9 as amended: sim[i][i] is 1 up to rounding for a song with a nonzero
\* count and exactly 0 for a song whose counts are all zero, and every entry
\* of the matrix is a defined number between 0 and 1 (up to rounding).
C9_DiagonalOneUpToRounding ==
    Loaded =>
        LET tol == RoundingError(Cardinality(pivot_table.index))
        IN  /\ DOMAIN song_similarity_df = pivot_table.columns \X pivot_table.columns
            /\ \A p \in DOMAIN song_similarity_df :
                   song_similarity_df[p] \in 0..(Scale + tol)
            /\ \A s \in pivot_table.columns :
                   IF ZeroColumn(s)
                   THEN song_similarity_df[<<s, s>>] = 0
                   ELSE song_similarity_df[<<s, s>>] \in (Scale - tol)..(Scale + tol)

C9_Witness ==
    /\ Loaded
    /\ \E s \in pivot_table.columns : ZeroColumn(s)
    /\ \E s \in pivot_table.columns :
          ~ZeroColumn(s) /\ song_similarity_df[<<s, s>>] # Scale

PcRank ==
    [p \in {"load", "prompt", "preferences", "preferences_window", "recommend",
            "display", "recommendations_window", "done", "crashed"} |->
        CASE p = "load" -> 0
          [] p = "prompt" -> 1
          [] p = "preferences" -> 2
          [] p = "preferences_window" -> 3
          [] p = "recommend" -> 4
          [] p = "display" -> 5
          [] p = "recommendations_window" -> 6
          [] OTHER -> 7]

FlowRecovers ==
    /\ UnknownUser =>
          /\ exception = "none" /\ pc # "crashed"
          /\ pc # "done" => ENABLED Next
          /\ PcRank[pc] > PcRank["preferences"] => preferences.kind = "not found"
          /\ PcRank[pc] > PcRank["recommend"] =>
                 /\ "User not found in the data." \in Range(stdout)
                 /\ Result = <<>>
          /\ pc = "done" =>
                 calls = <<"display_user_preferences", "hybrid_recommend_songs",
                           "display_recommendations">>
    /\ (Loaded /\ pc # "prompt" /\ user_id = None) => (pc = "done" /\ calls = <<>>)

=============================================================================
